---- MODULE Spec2Model ----
(***************************************************************************)
(* LinearRegression (linear_regression.py): one instance with the fields   *)
(* alpha_, X, y, w, num_iters, lambda_ and the operations fit, predict,    *)
(* score and cost.  fit runs either normal_eqn or gradient_descent; the    *)
(* loop of gradient_descent is one step per iteration.                     *)
(*                                                                         *)
(* numpy floats are modelled as exact rationals <<numerator, denominator>> *)
(* in lowest terms with a positive denominator; rounding is not modelled.  *)
(***************************************************************************)
EXTENDS Integers, Sequences, FiniteSets, TLC

VARIABLES
    alpha_,     \* self.alpha_
    X,          \* self.X, the augmented matrix
    y,          \* self.y
    w,          \* self.w
    num_iters,  \* self.num_iters
    lambda_,    \* self.lambda_
    attrs,      \* the names of the attributes the instance has
    pc,         \* "idle", or "gd" inside the loop of gradient_descent
    i,          \* the next value of the loop variable of gradient_descent
    cpi,        \* the dictionary of gradient_descent
    updates,    \* the assignments to self.w the loop of this fit has made
    ret,        \* what the latest call returned or raised
    call,       \* the arguments of the latest fit
    solver,     \* the solver the latest fit called
    switched    \* the fit before it took the other solver, on another feature count

vars ==
    <<alpha_, X, y, w, num_iters, lambda_, attrs, pc, i, cpi, updates, ret, call, solver, switched>>

(***************************************************************************)
(* Values are bound once, like the local variables of the code: TLC        *)
(* computes an operator argument or a LET definition anew at every use.    *)
(***************************************************************************)
\* F applied to the value of v
Bind(v, F(_)) == CHOOSE r \in {F(x) : x \in {v}} : TRUE

\* F applied to the values of u and v
Bind2(u, v, F(_, _)) == CHOOSE r \in {F(a, b) : a \in {u}, b \in {v}} : TRUE

(***************************************************************************)
(* Rational arithmetic (the float operations of numpy).                    *)
(***************************************************************************)
Abs(a) == IF a < 0 THEN -a ELSE a

RECURSIVE GCD(_, _)
GCD(a, b) == IF b = 0 THEN a ELSE Bind(a % b, LAMBDA r : GCD(b, r))

\* n / d in lowest terms, for d # 0
Norm(n, d) ==
    Bind(GCD(Abs(n), Abs(d)), LAMBDA g :
        IF d < 0 THEN <<(-n) \div g, (-d) \div g>> ELSE <<n \div g, d \div g>>)

R(k) == <<k, 1>>

Zero == R(0)

One == R(1)

RAdd(a, b) ==
    IF a[2] = 1 /\ b[2] = 1
    THEN <<a[1] + b[1], 1>>
    ELSE Bind(GCD(a[2], b[2]), LAMBDA g :
             Norm(a[1] * (b[2] \div g) + b[1] * (a[2] \div g), (a[2] \div g) * b[2]))

RNeg(a) == <<-a[1], a[2]>>

RSub(a, b) == RAdd(a, RNeg(b))

RMul(a, b) ==
    IF a[2] = 1 /\ b[2] = 1
    THEN <<a[1] * b[1], 1>>
    ELSE Bind2(Norm(a[1], b[2]), Norm(b[1], a[2]), LAMBDA s, t :
             <<s[1] * t[1], s[2] * t[2]>>)

\* a / b for b # 0
RDiv(a, b) == RMul(a, Norm(b[2], b[1]))

RLt(a, b) == RSub(a, b)[1] < 0

(***************************************************************************)
(* Vectors are sequences of rationals, matrices sequences of rows.         *)
(***************************************************************************)
Zeros(k) == [j \in 1..k |-> Zero]

VAdd(u, v) == Bind2(u, v, LAMBDA a, b : [j \in 1..Len(a) |-> RAdd(a[j], b[j])])

VSub(u, v) == Bind2(u, v, LAMBDA a, b : [j \in 1..Len(a) |-> RSub(a[j], b[j])])

VScale(c, v) == Bind2(c, v, LAMBDA k, a : [j \in 1..Len(a) |-> RMul(k, a[j])])

RECURSIVE SumTo(_, _)
SumTo(v, k) == IF k = 0 THEN Zero ELSE Bind(SumTo(v, k - 1), LAMBDA acc : RAdd(acc, v[k]))

\* np.sum(v)
Sum(v) == Bind(v, LAMBDA a : SumTo(a, Len(a)))

\* np.sum(v**2)
SumSq(v) == Bind(v, LAMBDA a : Sum([j \in 1..Len(a) |-> RMul(a[j], a[j])]))

Dot(u, v) == Bind2(u, v, LAMBDA a, b : Sum([j \in 1..Len(a) |-> RMul(a[j], b[j])]))

Cols(A) == Len(A[1])

\* np.dot(A, v) for a 2-D A and a 1-D v
MatVec(A, v) == Bind2(A, v, LAMBDA M, a : [r \in 1..Len(M) |-> Dot(M[r], a)])

Transpose(A) ==
    Bind(A, LAMBDA M : [c \in 1..Cols(M) |-> [r \in 1..Len(M) |-> M[r][c]]])

MatMul(A, B) ==
    Bind2(A, Transpose(B), LAMBDA M, Bt :
        [r \in 1..Len(M) |-> [c \in 1..Len(Bt) |-> Dot(M[r], Bt[c])]])

\* np.linalg.pinv of a symmetric positive semi-definite matrix of order 1 or 2
\* (X.T X with at most one feature): the inverse when it exists, otherwise the
\* Moore-Penrose inverse of a matrix of rank 0 or 1, A / trace(A)^2.
Pinv(A) ==
    Bind(A, LAMBDA M :
        IF Len(M) = 1
        THEN << <<IF M[1][1] = Zero THEN Zero ELSE RDiv(One, M[1][1])>> >>
        ELSE Bind2(RSub(RMul(M[1][1], M[2][2]), RMul(M[1][2], M[2][1])),
                   RAdd(M[1][1], M[2][2]), LAMBDA det, tr :
                 IF det # Zero
                 THEN << <<RDiv(M[2][2], det), RDiv(RNeg(M[1][2]), det)>>,
                         <<RDiv(RNeg(M[2][1]), det), RDiv(M[1][1], det)>> >>
                 ELSE IF tr = Zero
                 THEN << <<Zero, Zero>>, <<Zero, Zero>> >>
                 ELSE [r \in 1..2 |-> [c \in 1..2 |-> RDiv(M[r][c], RMul(tr, tr))]]))

(***************************************************************************)
(* Program constants.                                                      *)
(***************************************************************************)
\* fit: "if m < 10" chooses normal_eqn
Threshold == 10

\* gradient_descent: "if not np.remainder(i, 10)" records the cost
RecordEvery == 10

(***************************************************************************)
(* Bounds of the model and the inputs the operations are called with.      *)
(***************************************************************************)
\* the largest num_iters fit is called with
MaxIters == 11

Vec(s) == [j \in 1..Len(s) |-> R(s[j])]

\* a numpy array of ndim 1
Array1(s) == [ndim |-> 1, data |-> Vec(s)]

\* a numpy array of ndim 2, shape (Len(rows), Len(rows[1]))
Array2(rows) == [ndim |-> 2, data |-> [r \in 1..Len(rows) |-> Vec(rows[r])]]

\* the (m x 1) matrix holding the values of s
Column(s) == Array2([r \in 1..Len(s) |-> <<s[r]>>])

\* an array of shape (m, 0)
NoFeatures(m) == Array2([r \in 1..m |-> <<>>])

Balanced == [j \in 1..Threshold |-> IF j % 2 = 1 THEN 1 ELSE -1]

Ramp(m) == [j \in 1..m |-> j]

\* data sets with m = 10 on which X.T X / m and X.T y / m are small, so that
\* MaxIters iterations stay within TLC's integers: as a matrix and as a vector
LongData ==
    { [X |-> Column(Balanced), y |-> Vec([j \in 1..Threshold |-> 1 + 2 * Balanced[j]])],
      [X |-> Array1(Balanced), y |-> Vec([j \in 1..Threshold |-> 1 + 2 * Balanced[j]])] }

\* the values of num_iters on LongData: few iterations, and enough to pass
\* the second recording of the cost
LongIters == {n \in 0..MaxIters : n <= 2 \/ n >= MaxIters - 1}

\* X = [[1],...,[10]], y = [2,4,...,20]
Scenario == [X |-> Column(Ramp(Threshold)), y |-> Vec([j \in 1..Threshold |-> 2 * j])]

\* the other data sets: m = 10 and m = 11 (gradient descent), m = 9, 3, 2
\* (normal equation; the m = 2 one has a singular X.T X)
ShortData ==
    { Scenario,
      [X |-> Array1([j \in 1..(Threshold + 1) |-> 1]), y |-> Vec([j \in 1..(Threshold + 1) |-> 3])],
      [X |-> Column(Ramp(Threshold - 1)), y |-> Vec([j \in 1..(Threshold - 1) |-> 2 * j])],
      [X |-> Array1(<<1, 2, 3>>), y |-> Vec(<<2, 4, 7>>)],
      [X |-> Column(<<1, 2, 3>>), y |-> Vec(<<2, 4, 7>>)],
      [X |-> Column(<<1, 1>>), y |-> Vec(<<1, 3>>)],
      [X |-> NoFeatures(3), y |-> Vec(<<1, 2, 3>>)] }

\* the values of num_iters on ShortData (the weights of a second iteration on
\* Scenario have a cost beyond TLC's integers)
ShortIters == {0, 1}

Lambdas == {Zero, R(10)}

Alphas == {One, <<1, 2>>}

\* the argument lists of fit
FitCalls ==
    { [X |-> d.X, y |-> d.y, num_iters |-> n, lambda_ |-> l] :
        d \in LongData, n \in LongIters, l \in Lambdas }
    \cup
    { [X |-> d.X, y |-> d.y, num_iters |-> n, lambda_ |-> l] :
        d \in ShortData, n \in ShortIters, l \in Lambdas }

\* the arrays predict is called with
PredictInputs == { Array1(<<1, 2>>), Column(<<1, 2>>), NoFeatures(2) }

\* the (y, y_hat, score) arguments of score
ScoreInputs ==
    { [y |-> Vec(<<2, 4>>), y_hat |-> Vec(<<2, 7>>), score |-> s] :
        s \in {"rmse", "mse", "mae"} }

(***************************************************************************)
(* The methods of LinearRegression.                                        *)
(***************************************************************************)
\* Augment with the column of ones left out for a vector
AugmentVectorWithoutBias(arr, m) ==
    IF arr.ndim = 1
    THEN [r \in 1..m |-> <<arr.data[r]>>]
    ELSE [r \in 1..m |-> <<One>> \o arr.data[r]]

\* the shape promotion and bias column of fit and of predict
Augment(arr, m) ==
    IF arr.ndim = 1
    THEN [r \in 1..m |-> <<One>> \o <<arr.data[r]>>]
    ELSE [r \in 1..m |-> <<One>> \o arr.data[r]]

\* cost(): C, from self.X, self.y, self.w, self.lambda_
cost(Xa, yv, wv, lam) ==
    Bind2(Len(yv), MatVec(Xa, wv), LAMBDA m, y_hat :
    Bind2(SumSq(VSub(y_hat, yv)), SumSq(Tail(wv)), LAMBDA sq_err, sq_w :
        RAdd(RMul(<<1, 2 * m>>, sq_err), RMul(RDiv(lam, R(2 * m)), sq_w))))

\* one pass of the loop body of gradient_descent up to the update of self.w.
\* w_ = self.w binds the same array, so w_[0] = 0 zeroes self.w[0] as well,
\* after y_hat was computed from the weights the iteration started with.
GradientStep(Xa, yv, wv, lam, alpha) ==
    Bind2(Len(yv), MatVec(Xa, wv), LAMBDA m, y_hat :
    Bind([wv EXCEPT ![1] = Zero], LAMBDA w_ :
    Bind(w_, LAMBDA self_w :
    Bind(VScale(<<1, m>>, MatVec(Transpose(Xa), VSub(y_hat, yv))), LAMBDA grad0 :
    Bind(VAdd(grad0, VScale(RDiv(lam, R(m)), w_)), LAMBDA grad :
        VSub(self_w, VScale(alpha, grad)))))))

\* LoopRuns with the last iteration left out
LoopRunsShort(k, n) == k < n - 1

\* for i in range(self.num_iters)
LoopRuns(k, n) == k < n

\* RecordsCost with the test of the remainder inverted
RecordsCostInverted(k) == k % RecordEvery # 0

\* if not np.remainder(i, 10)
RecordsCost(k) == k % RecordEvery = 0

\* normal_eqn(): the new self.w
normal_eqn(Xa, yv) ==
    Bind(Transpose(Xa), LAMBDA Xt :
    Bind(MatMul(Xt, Xa), LAMBDA XtX :
    Bind(Pinv(XtX), LAMBDA P :
    Bind(MatMul(P, Xt), LAMBDA PXt : MatVec(PXt, yv)))))

\* UsesNormalEqn with the bound of the comment "gradient descent for m > 100"
UsesNormalEqnBelow100(m) == m < 100

\* UsesNormalEqn with m <= 10
UsesNormalEqnUpTo(m) == m <= Threshold

\* if m < 10
UsesNormalEqn(m) == m < Threshold

\* FitStore keeping the lambda_ of an earlier fit
FitStoreKeepsLambda(self, c) ==
    LET m  == Len(c.y)
        Xa == Augment(c.X, m)
    IN  [X |-> Xa, y |-> c.y, num_iters |-> c.num_iters,
         lambda_ |-> IF "lambda_" \in self.attrs THEN self.lambda_ ELSE c.lambda_,
         w |-> Zeros(Cols(Xa))]

\* fit, up to the choice of the solver: the fields it stores
FitStore(self, c) ==
    LET m  == Len(c.y)
        Xa == Augment(c.X, m)
    IN  [X |-> Xa, y |-> c.y, num_iters |-> c.num_iters, lambda_ |-> c.lambda_,
         w |-> Zeros(Cols(Xa))]

\* predict: y_hat, or the error of np.dot / of reading self.w
predict(Xin, has, wv) ==
    Bind(Augment(Xin, Len(Xin.data)), LAMBDA Xa :
        IF "w" \notin has
        THEN [kind |-> "error", err |-> "AttributeError", y_hat |-> <<>>]
        ELSE IF Cols(Xa) # Len(wv)
        THEN [kind |-> "error", err |-> "ValueError", y_hat |-> <<>>]
        ELSE [kind |-> "value", err |-> "", y_hat |-> MatVec(Xa, wv)])

\* Scorer.mse_: mean((y - y_hat)^2)
mse_(yv, y_hat) == RDiv(SumSq(VSub(yv, y_hat)), R(Len(yv)))

\* Scorer.rmse_: the square root of mse_, kept as the term sqrt(num)
rmse_(yv, y_hat) == [sqrt |-> TRUE, num |-> mse_(yv, y_hat)]

\* score with mse as the branch of every other metric
scoreDefaultsToMse(yv, y_hat, metric) ==
    IF metric = "rmse"
    THEN [kind |-> "value", err |-> "", score_metric |-> rmse_(yv, y_hat)]
    ELSE [kind |-> "value", err |-> "",
          score_metric |-> [sqrt |-> FALSE, num |-> mse_(yv, y_hat)]]

\* score: score_metric is bound in the two branches only, so that the return
\* statement raises UnboundLocalError for any other metric
score(yv, y_hat, metric) ==
    IF metric = "rmse"
    THEN [kind |-> "value", err |-> "", score_metric |-> rmse_(yv, y_hat)]
    ELSE IF metric = "mse"
    THEN [kind |-> "value", err |-> "",
          score_metric |-> [sqrt |-> FALSE, num |-> mse_(yv, y_hat)]]
    ELSE [kind |-> "error", err |-> "UnboundLocalError",
          score_metric |-> [sqrt |-> FALSE, num |-> Zero]]

\* the cost history fit returns: None, or the dictionary of gradient_descent
NoneCpi == [isNone |-> TRUE, map |-> <<>>]

DictCpi(d) == [isNone |-> FALSE, map |-> d]

\* the loop of gradient_descent from iteration k on: the final w and cpi
RECURSIVE GDLoop(_, _, _, _, _, _, _, _)
GDLoop(Xa, yv, wv, lam, alpha, k, n, d) ==
    IF LoopRuns(k, n)
    THEN Bind(GradientStep(Xa, yv, wv, lam, alpha), LAMBDA w1 :
         Bind(IF RecordsCost(k) THEN (k :> cost(Xa, yv, w1, lam)) @@ d ELSE d, LAMBDA d1 :
         GDLoop(Xa, yv, w1, lam, alpha, k + 1, n, d1)))
    ELSE [w |-> wv, cpi |-> d]

\* the instance right after LinearRegression(alpha)
Fresh(alpha) ==
    [alpha_ |-> alpha, X |-> <<>>, y |-> <<>>, w |-> <<>>, num_iters |-> 0,
     lambda_ |-> Zero, attrs |-> {"alpha_"}]

\* fit(c.X, c.y, c.num_iters, c.lambda_) on a fresh instance: the fields it
\* leaves and the cost history it returns
FitFresh(alpha, c) ==
    Bind(FitStore(Fresh(alpha), c), LAMBDA st :
        IF UsesNormalEqn(Len(st.y))
        THEN [X |-> st.X, y |-> st.y, num_iters |-> st.num_iters, lambda_ |-> st.lambda_,
              w |-> normal_eqn(st.X, st.y), cpi |-> NoneCpi]
        ELSE Bind(GDLoop(st.X, st.y, Zeros(Cols(st.X)), st.lambda_, alpha,
                         0, st.num_iters, <<>>), LAMBDA g :
                 [X |-> st.X, y |-> st.y, num_iters |-> st.num_iters,
                  lambda_ |-> st.lambda_, w |-> g.w, cpi |-> DictCpi(g.cpi)]))

(***************************************************************************)
(* The state machine.                                                      *)
(***************************************************************************)
NoArray == [ndim |-> 0, data |-> <<>>]

NoCall == [X |-> NoArray, y |-> <<>>, num_iters |-> 0, lambda_ |-> Zero]

\* what a call returned or raised: kind is "value", "error", "pending" (a fit
\* inside its loop) or "none"; the fields a call does not set keep these values
NoRet ==
    [op |-> "init", kind |-> "none", err |-> "", w |-> <<>>, cpi |-> NoneCpi,
     y_hat |-> <<>>, num |-> Zero, sqrt |-> FALSE, arg |-> NoArray, metric |-> ""]

Self ==
    [alpha_ |-> alpha_, X |-> X, y |-> y, w |-> w, num_iters |-> num_iters,
     lambda_ |-> lambda_, attrs |-> attrs]

Init ==
    /\ alpha_ \in Alphas
    /\ X = <<>>
    /\ y = <<>>
    /\ w = <<>>
    /\ num_iters = 0
    /\ lambda_ = Zero
    /\ attrs = {"alpha_"}
    /\ pc = "idle"
    /\ i = 0
    /\ cpi = <<>>
    /\ updates = 0
    /\ ret = NoRet
    /\ call = NoCall
    /\ solver = "none"
    /\ switched = FALSE

\* fit(c.X, c.y, c.num_iters, c.lambda_): the whole call when it takes
\* normal_eqn, up to the entry of the loop when it takes gradient_descent
Fit(c) ==
    /\ pc = "idle"
    /\ LET st == FitStore(Self, c)
       IN  /\ X' = st.X
           /\ y' = st.y
           /\ num_iters' = st.num_iters
           /\ lambda_' = st.lambda_
           /\ attrs' = attrs \cup {"X", "y", "num_iters", "lambda_", "w"}
           /\ IF UsesNormalEqn(Len(c.y))
              THEN /\ w' = normal_eqn(st.X, st.y)
                   /\ solver' = "normal_eqn"
                   /\ pc' = "idle"
                   /\ ret' = [NoRet EXCEPT !.op = "fit", !.kind = "value", !.w = w']
              ELSE /\ w' = Zeros(Cols(st.X))
                   /\ solver' = "gradient_descent"
                   /\ pc' = "gd"
                   /\ ret' = [NoRet EXCEPT !.op = "fit", !.kind = "pending"]
    /\ i' = 0
    /\ cpi' = <<>>
    /\ updates' = 0
    /\ call' = c
    /\ switched' = (solver # "none" /\ solver' # solver /\ Len(w') # Len(w))
    /\ UNCHANGED alpha_

\* one iteration of the loop of gradient_descent
GDIterate ==
    /\ pc = "gd"
    /\ LoopRuns(i, num_iters)
    /\ w' = GradientStep(X, y, w, lambda_, alpha_)
    /\ cpi' = IF RecordsCost(i) THEN (i :> cost(X, y, w', lambda_)) @@ cpi ELSE cpi
    /\ i' = i + 1
    /\ updates' = updates + 1
    /\ UNCHANGED <<alpha_, X, y, num_iters, lambda_, attrs, pc, ret, call, solver, switched>>

\* the loop is over: gradient_descent returns cpi and fit returns
GDReturn ==
    /\ pc = "gd"
    /\ ~LoopRuns(i, num_iters)
    /\ pc' = "idle"
    /\ ret' = [NoRet EXCEPT !.op = "fit", !.kind = "value", !.w = w, !.cpi = DictCpi(cpi)]
    /\ UNCHANGED <<alpha_, X, y, w, num_iters, lambda_, attrs, i, cpi, updates, call,
                   solver, switched>>

\* Predict storing the augmented input as self.X
PredictStoresX(a) ==
    /\ pc = "idle"
    /\ LET r == predict(a, attrs, w)
       IN  ret' = [NoRet EXCEPT !.op = "predict", !.kind = r.kind, !.err = r.err,
                                !.y_hat = r.y_hat, !.arg = a]
    /\ X' = Augment(a, Len(a.data))
    /\ attrs' = attrs \cup {"X"}
    /\ UNCHANGED <<alpha_, y, w, num_iters, lambda_, pc, i, cpi, updates, call,
                   solver, switched>>

\* predict(a, y)
Predict(a) ==
    /\ pc = "idle"
    /\ LET r == predict(a, attrs, w)
       IN  ret' = [NoRet EXCEPT !.op = "predict", !.kind = r.kind, !.err = r.err,
                                !.y_hat = r.y_hat, !.arg = a]
    /\ UNCHANGED <<alpha_, X, y, w, num_iters, lambda_, attrs, pc, i, cpi, updates, call,
                   solver, switched>>

\* score(s.y, s.y_hat, s.score)
Score(s) ==
    /\ pc = "idle"
    /\ LET r == score(s.y, s.y_hat, s.score)
       IN  ret' = [NoRet EXCEPT !.op = "score", !.kind = r.kind, !.err = r.err,
                                !.num = r.score_metric.num, !.sqrt = r.score_metric.sqrt,
                                !.metric = s.score]
    /\ UNCHANGED <<alpha_, X, y, w, num_iters, lambda_, attrs, pc, i, cpi, updates, call,
                   solver, switched>>

\* cost(), called from outside fit
Cost ==
    /\ pc = "idle"
    /\ ret' = IF {"X", "y", "w", "lambda_"} \subseteq attrs
              THEN [NoRet EXCEPT !.op = "cost", !.kind = "value",
                                 !.num = cost(X, y, w, lambda_)]
              ELSE [NoRet EXCEPT !.op = "cost", !.kind = "error", !.err = "AttributeError"]
    /\ UNCHANGED <<alpha_, X, y, w, num_iters, lambda_, attrs, pc, i, cpi, updates, call,
                   solver, switched>>

Next ==
    \/ \E c \in FitCalls : Fit(c)
    \/ GDIterate
    \/ GDReturn
    \/ \E a \in PredictInputs : Predict(a)
    \/ \E s \in ScoreInputs : Score(s)
    \/ Cost

Spec == Init /\ [][Next]_vars

\* the loop of gradient_descent is never left waiting: the code is sequential
FairSpec == Spec /\ WF_vars(GDIterate) /\ WF_vars(GDReturn)

(***************************************************************************)
(* The claims.                                                             *)
(***************************************************************************)
FitReturned == ret.op = "fit" /\ ret.kind = "value"

\* the number of feature columns of an input array
Features(arr) == IF arr.ndim = 1 THEN 1 ELSE Len(arr.data[1])

\* the (m x 1) matrix holding the values of a vector
AsMatrix(arr) == [ndim |-> 2, data |-> [r \in 1..Len(arr.data) |-> <<arr.data[r]>>]]

IsScenario == call.X.ndim = 2 /\ call.X = Scenario.X /\ call.y = Scenario.y

C3_Grad(Xa, yv, wv, lam) ==
    Bind2(Len(yv), [wv EXCEPT ![1] = Zero], LAMBDA m, w_reg :
        VAdd(VScale(<<1, m>>, MatVec(Transpose(Xa), VSub(MatVec(Xa, wv), yv))),
             VScale(RDiv(lam, R(m)), w_reg)))

\* C3: every iteration of gradient descent sets w to the w it started with
\* minus learning_rate * grad, at every index, the bias index included.
C3_UpdateFromStartWeights ==
    [][(pc = "gd" /\ updates' = updates + 1) =>
          w' = VSub(w, VScale(alpha_, C3_Grad(X, y, w, lambda_)))]_vars

C5_LargerLambdaShrinksNorm ==
    FitReturned =>
        \A la \in Lambdas :
            RLt(la, lambda_) =>
                \A f \in {FitFresh(alpha_, [call EXCEPT !.lambda_ = la])} :
                    RLt(SumSq(Tail(w)), SumSq(Tail(f.w)))

UnknownMetric == ret.op = "score" /\ ret.metric \notin {"rmse", "mse"}

C7_FitOverwrites ==
    FitReturned =>
        \A f \in {FitFresh(alpha_, call)} :
            /\ X = f.X
            /\ y = f.y
            /\ w = f.w
            /\ num_iters = f.num_iters
            /\ lambda_ = f.lambda_
            /\ ret.w = f.w
            /\ ret.cpi = f.cpi

\* a second fit on the other solver, with another feature count, another
\* lambda_ and another num_iters than the fit before it
C7_Witness ==
    /\ FitReturned
    /\ solver = "gradient_descent"
    /\ updates >= 2
    /\ lambda_ = Zero
    /\ switched

\* C8: gradient descent makes exactly num_iters weight updates and then
\* returns, whatever the weights do; with num_iters = 0 the fitted weights
\* are the zero vector of length n + 1.
C8_RunsNumItersUpdates ==
    /\ [](pc = "gd" => updates <= num_iters)
    /\ []((FitReturned /\ solver = "gradient_descent") =>
            /\ updates = num_iters
            /\ num_iters = 0 => w = Zeros(Features(call.X) + 1))
    /\ (pc = "gd") ~> (pc = "idle" /\ updates = num_iters)

C8_Witness ==
    /\ FitReturned
    /\ solver = "gradient_descent"
    /\ num_iters = 0
    /\ Len(w) = 2

\* C9: a vector of length m is handled by fit and predict as the (m x 1)
\* matrix of the same values: the augmented matrix, the solver, the weights,
\* the cost history and the predictions are the same.
C9_VectorAsMatrix ==
    /\ (pc = "idle" /\ call.X.ndim = 1) =>
         \A f \in {FitFresh(alpha_, [call EXCEPT !.X = AsMatrix(call.X)])} :
             /\ X = f.X
             /\ w = f.w
             /\ (solver = "normal_eqn") = f.cpi.isNone
             /\ FitReturned => ret.w = f.w /\ ret.cpi = f.cpi
    /\ (ret.op = "predict" /\ ret.arg.ndim = 1) =>
         \A r \in {predict(AsMatrix(ret.arg), attrs, w)} :
             ret.kind = r.kind /\ ret.err = r.err /\ ret.y_hat = r.y_hat

C9_Witness ==
    /\ ret.op = "predict"
    /\ ret.arg.ndim = 1
    /\ ret.kind = "value"
    /\ call.X.ndim = 1
    /\ solver = "gradient_descent"
    /\ updates >= 2

\* C10: predict, score and cost leave X, y, w, num_iters and lambda_ as they
\* are, no operation changes the learning rate, and predict repeated on the
\* same input returns the same result.
C10_OnlyFitChangesState ==
    [][/\ alpha_' = alpha_
       /\ ret'.op \in {"predict", "score", "cost"} =>
            UNCHANGED <<X, y, w, num_iters, lambda_, attrs>>
       /\ (ret.op = "predict" /\ ret'.op = "predict" /\ ret'.arg.ndim = ret.arg.ndim
             /\ ret'.arg = ret.arg) =>
            ret' = ret]_vars

C10_Witness ==
    /\ ret.op = "predict"
    /\ ret.kind = "value"
    /\ solver = "gradient_descent"
    /\ updates >= 1
    /\ alpha_ = <<1, 2>>

====
